---------------------------- MODULE Spec2Model ----------------------------
(***************************************************************************)
(* Model of datafusion-postgres/src/datatypes.rs: the translation layer    *)
(* between Arrow/DataFusion columnar values and the PostgreSQL wire        *)
(* protocol.                                                               *)
(*                                                                         *)
(*   into_pg_type            logical type -> wire type                     *)
(*   encode_value            one non-null cell -> fields of a row encoder  *)
(*   encode_dataframe        stream of record batches -> stream of rows    *)
(*   deserialize_parameters  bound parameters -> scalar values             *)
(*                                                                         *)
(* Four specifications share the variables: SpecType (into_pg_type),       *)
(* SpecEncode (encode_value), SpecAdapter (encode_dataframe) and           *)
(* SpecParams (deserialize_parameters).                                    *)
(***************************************************************************)
EXTENDS Integers, Sequences, FiniteSets, TLC

VARIABLES
    df_type,        \* SpecType: the DataType handed to into_pg_type
    pg_result,      \* SpecType: what into_pg_type returned, or Pending
    arr,            \* SpecEncode: the column array handed to encode_value
    encoder,        \* SpecEncode: the DataRowEncoder's fields written so far
    enc_result,     \* SpecEncode: what encode_value returned, or Pending
    time_datetime,  \* whether arrow's value_as_datetime yields a datetime for
                    \* Time32/Time64 arrays (TRUE) or None (FALSE)
    schema,         \* SpecAdapter: the DataFrame's schema, a DataType per column
    upstream,       \* SpecAdapter: the items the record batch stream yields
    polled,         \* SpecAdapter: how many upstream items have been taken
    row,            \* SpecAdapter: how many rows of the current item are out
    output,         \* SpecAdapter: the items pg_row_stream has yielded
    pg_fields,      \* SpecAdapter: what df_schema_to_pg_fields returned
    pc,             \* SpecAdapter: start, streaming, done, failed, panicked
    parameters,          \* SpecParams: the portal's parameter payloads
    parameter_types,     \* SpecParams: portal.statement.parameter_types
    inferenced_types,    \* SpecParams: the engine's inferred types
    pg_type,             \* SpecParams: what get_pg_type returned in the latest turn
    param_i,             \* SpecParams: the loop index i of deserialize_parameters
    deserialized_params, \* SpecParams: the scalars pushed so far
    ret                  \* SpecParams: what deserialize_parameters returned

Pending == [tag |-> "Pending"]

\* the value of a variable the running specification does not use
Idle == [tag |-> "Idle"]

(***************************************************************************)
(* DataType (arrow).  A scalar type is [k, unit, tz]; a list type is       *)
(* [k, elem].  unit and tz are "-" where the variant has none.  The byte   *)
(* width of FixedSizeBinary and the length of FixedSizeList are matched    *)
(* with `_` everywhere in the source and are left out.                     *)
(***************************************************************************)
NoTz == "-"

TimeUnits == {"Second", "Millisecond", "Microsecond", "Nanosecond"}

IntervalUnits == {"YearMonth", "DayTime", "MonthDayNano"}

\* Option<Arc<str>> of Timestamp: absent, a fixed offset, IANA names, and a
\* string that names no zone.
TzStrings == {"+05:30", "UTC", "America/New_York", "Mars/Olympus"}

PlainKinds ==
    {"Null", "Boolean", "Int8", "Int16", "Int32", "Int64",
     "UInt8", "UInt16", "UInt32", "UInt64",
     "Float16", "Float32", "Float64", "Date32", "Date64",
     "Binary", "FixedSizeBinary", "LargeBinary",
     "Utf8", "LargeUtf8", "Utf8View",
     "Duration", "Decimal128", "Struct"}

ListKinds == {"List", "FixedSizeList", "LargeList"}

Plain(k) == [k |-> k, unit |-> "-", tz |-> NoTz]

Time32(u) == [k |-> "Time32", unit |-> u, tz |-> NoTz]

Time64(u) == [k |-> "Time64", unit |-> u, tz |-> NoTz]

Timestamp(u, tz) == [k |-> "Timestamp", unit |-> u, tz |-> tz]

Interval(u) == [k |-> "Interval", unit |-> u, tz |-> NoTz]

ListOf(kind, elem) == [k |-> kind, elem |-> elem]

ScalarTypes ==
    {Plain(k) : k \in PlainKinds}
    \cup {Time32(u) : u \in TimeUnits}
    \cup {Time64(u) : u \in TimeUnits}
    \cup {Timestamp(u, tz) : u \in TimeUnits, tz \in TzStrings \cup {NoTz}}
    \cup {Interval(u) : u \in IntervalUnits}

ListTypes == {ListOf(kind, e) : kind \in ListKinds, e \in ScalarTypes}

\* list-of-list, one representative inner element type per inner kind
NestedListTypes ==
    {ListOf(kind, ListOf(inner, Plain("Int32"))) : kind \in ListKinds, inner \in ListKinds}

DataTypes == ScalarTypes \cup ListTypes \cup NestedListTypes

IsList(t) == t.k \in ListKinds

(***************************************************************************)
(* PgWireResult<Type>                                                      *)
(***************************************************************************)
OkType(ty) == [tag |-> "Ok", ty |-> ty]

\* PgWireError::UserError(ErrorInfo::new(severity, code, message))
\* message holds the literal part of the source's format string; the
\* formatted type and array that follow it are left out
UserError(severity, code, message) ==
    [tag |-> "Err", kind |-> "UserError", severity |-> severity, code |-> code,
     message |-> message]

\* PgWireError::ApiError(boxed cause)
ApiError(cause) ==
    [tag |-> "Err", kind |-> "ApiError", severity |-> "-", code |-> "-",
     message |-> cause]

\* the zone test of lines 28-34 with its branches exchanged
timestamp_pg_type_swapped(tz) == IF tz # NoTz THEN "TIMESTAMP" ELSE "TIMESTAMPTZ"

\* lines 28-34: the zone decides, the unit does not
timestamp_pg_type(tz) == IF tz # NoTz THEN "TIMESTAMPTZ" ELSE "TIMESTAMP"

\* lines 50-56
timestamp_array_pg_type(tz) ==
    IF tz # NoTz THEN "TIMESTAMPTZ_ARRAY" ELSE "TIMESTAMP_ARRAY"

\* lines 44-72: the inner match on field.data_type()
list_into_pg_type(elem) ==
    CASE elem.k = "Boolean" -> OkType("BOOL_ARRAY")
      [] elem.k \in {"Int8", "UInt8"} -> OkType("CHAR_ARRAY")
      [] elem.k \in {"Int16", "UInt16"} -> OkType("INT2_ARRAY")
      [] elem.k \in {"Int32", "UInt32"} -> OkType("INT4_ARRAY")
      [] elem.k \in {"Int64", "UInt64"} -> OkType("INT8_ARRAY")
      [] elem.k = "Timestamp" -> OkType(timestamp_array_pg_type(elem.tz))
      [] elem.k \in {"Time32", "Time64"} -> OkType("TIME_ARRAY")
      [] elem.k \in {"Date32", "Date64"} -> OkType("DATE_ARRAY")
      [] elem.k = "Interval" -> OkType("INTERVAL_ARRAY")
      [] elem.k \in {"FixedSizeBinary", "Binary"} -> OkType("BYTEA_ARRAY")
      [] elem.k \in {"Float16", "Float32"} -> OkType("FLOAT4_ARRAY")
      [] elem.k = "Float64" -> OkType("FLOAT8_ARRAY")
      [] elem.k = "Utf8" -> OkType("VARCHAR_ARRAY")
      [] elem.k = "LargeUtf8" -> OkType("TEXT_ARRAY")
      [] OTHER -> UserError("ERROR", "XX000", "Unsupported List Datatype")

\* lines 20-83
into_pg_type(t) ==
    CASE t.k = "Null" -> OkType("UNKNOWN")
      [] t.k = "Boolean" -> OkType("BOOL")
      [] t.k \in {"Int8", "UInt8"} -> OkType("CHAR")
      [] t.k \in {"Int16", "UInt16"} -> OkType("INT2")
      [] t.k \in {"Int32", "UInt32"} -> OkType("INT4")
      [] t.k \in {"Int64", "UInt64"} -> OkType("INT8")
      [] t.k = "Timestamp" -> OkType(timestamp_pg_type(t.tz))
      [] t.k \in {"Time32", "Time64"} -> OkType("TIME")
      [] t.k \in {"Date32", "Date64"} -> OkType("DATE")
      [] t.k = "Interval" -> OkType("INTERVAL")
      [] t.k \in {"Binary", "FixedSizeBinary", "LargeBinary"} -> OkType("BYTEA")
      [] t.k \in {"Float16", "Float32"} -> OkType("FLOAT4")
      [] t.k = "Float64" -> OkType("FLOAT8")
      [] t.k = "Utf8" -> OkType("VARCHAR")
      [] t.k = "LargeUtf8" -> OkType("TEXT")
      [] t.k \in ListKinds -> list_into_pg_type(t.elem)
      [] t.k = "Utf8View" -> OkType("TEXT")
      [] OTHER -> UserError("ERROR", "XX000", "Unsupported Datatype")

(***************************************************************************)
(* Native values.                                                          *)
(*                                                                         *)
(* An integer is <<sign>> \o magnitude: sign is 0 or 1 and the magnitude   *)
(* is big-endian bytes, one per byte of the Rust type, so that u64 and i64 *)
(* keep their width.  Every other native value is a tuple of integers too: *)
(* a bool is <<0>> or <<1>>, a float is a token <<n>>, a string or byte    *)
(* string is its bytes, a NaiveDate is <<year, month, day>>, a             *)
(* NaiveDateTime is <<seconds, nanoseconds>> since the epoch and a         *)
(* DateTime<FixedOffset> is <<seconds, nanoseconds, offset seconds>>.      *)
(***************************************************************************)
Some(x) == [some |-> TRUE, val |-> x]

None == [some |-> FALSE, val |-> <<>>]

WidthOf(k) ==
    CASE k \in {"Int8", "UInt8"} -> 1
      [] k \in {"Int16", "UInt16"} -> 2
      [] k \in {"Int32", "UInt32"} -> 4
      [] k \in {"Int64", "UInt64"} -> 8

Bytes(w, top, rest) == [i \in 1..w |-> IF i = 1 THEN top ELSE rest]

LowOne(w) == [i \in 1..w |-> IF i = w THEN 1 ELSE 0]

\* 0, 2^(N-8), MAX of the signed twin, its successor, and the all-ones end
UnsignedValues(w) ==
    {<<0>> \o Bytes(w, top, rest) : top \in {0, 1, 127, 128, 255}, rest \in {0, 255}}

\* 0, MAX, -1, MIN
SignedValues(w) ==
    {<<0>> \o Bytes(w, 0, 0), <<0>> \o Bytes(w, 127, 255),
     <<1>> \o LowOne(w), <<1>> \o Bytes(w, 128, 0)}

Complement(mag) == [i \in 1..Len(mag) |-> 255 - mag[i]]

RECURSIVE Increment(_)
\* mag + 1 modulo 256^Len(mag)
Increment(mag) ==
    IF mag = <<>> THEN <<>>
    ELSE LET n == Len(mag)
         IN  IF mag[n] < 255
             THEN [mag EXCEPT ![n] = @ + 1]
             ELSE Append(Increment(SubSeq(mag, 1, n - 1)), 0)

\* the cast with one's complement instead of two's complement
as_signed_ones_complement(val) ==
    LET mag == Tail(val)
    IN  IF mag[1] >= 128 THEN <<1>> \o Complement(mag) ELSE val

\* `val as i8`, `val as i16`, `val as i64` (lines 254, 255, 257, 155-162): a
\* cast between integers of one width keeps the bits; read as two's
\* complement, a value with the top bit set is val - 2^N.
as_signed(val) ==
    LET mag == Tail(val)
    IN  IF mag[1] >= 128 THEN <<1>> \o Increment(Complement(mag)) ELSE val

(***************************************************************************)
(* Temporal values.  A stored temporal integer is <<v, far>>: v is the     *)
(* stored number when far = 0; far = 1 stands for a stored number past     *)
(* what chrono's NaiveDate can hold (for Date32 beyond about 95 million    *)
(* days, for Timestamp(Second) beyond about 8.2e12 seconds), where the     *)
(* conversions return None.  An i64 of nanoseconds is always in range.     *)
(***************************************************************************)
\* days since 1970-01-01 to (year, month, day), proleptic Gregorian
civil_from_days(days) ==
    LET z == days + 719468
        era == z \div 146097
        doe == z - era * 146097
        yoe == (doe - doe \div 1460 + doe \div 36524 - doe \div 146096) \div 365
        doy == doe - (365 * yoe + yoe \div 4 - yoe \div 100)
        mp == (5 * doy + 2) \div 153
        d == doy - (153 * mp + 2) \div 5 + 1
        m == IF mp < 10 THEN mp + 3 ELSE mp - 9
        y == yoe + era * 400 + (IF m <= 2 THEN 1 ELSE 0)
    IN  <<y, m, d>>

\* Date32Array / Date64Array ::value_as_date (lines 201-213)
value_as_date(k, raw) ==
    IF raw[2] = 1 THEN None
    ELSE IF k = "Date32" THEN Some(civil_from_days(raw[1]))
         ELSE Some(civil_from_days((raw[1] \div 1000) \div 86400))

UnitsPerSecond(unit) ==
    CASE unit = "Second" -> 1
      [] unit = "Millisecond" -> 1000
      [] unit = "Microsecond" -> 1000000
      [] unit = "Nanosecond" -> 1000000000

\* (seconds, nanoseconds) of a stored count of `unit`s, rounding down
split_second(unit, v) ==
    LET per == UnitsPerSecond(unit)
    IN  <<v \div per, (v % per) * (1000000000 \div per)>>

\* Timestamp*Array::value_as_datetime (lines 292, 309, 326, 343)
value_as_datetime(unit, raw) ==
    IF raw[2] = 1 THEN None ELSE Some(split_second(unit, raw[1]))

\* Time32*Array / Time64*Array ::value_as_datetime (lines 215-240)
time_value_as_datetime(unit, raw) ==
    IF time_datetime THEN Some(split_second(unit, raw[1])) ELSE None

\* DateTime::from_timestamp(i, 0), from_timestamp_millis, from_timestamp_micros
\* followed by naive_utc (lines 476, 489, 511, 524, 546, 559)
from_timestamp(unit, raw) ==
    IF raw[2] = 1 THEN None ELSE Some(split_second(unit, raw[1]))

\* DateTime::from_timestamp_nanos(i).naive_utc() (lines 582, 592): total
from_timestamp_nanos(raw) == split_second("Nanosecond", raw[1])

\* Tz::from_str (lines 285, 302, 319, 336, 471, 506, 541, 576)
tz_from_str(tz) == tz \in {"+05:30", "UTC", "America/New_York"}

\* the zone's offset from UTC, in seconds, at the instant `secs`; New York
\* was on standard time until 1970-04-26T07:00:00Z and on daylight time
\* for the rest of the instants the model reaches
tz_offset_at(tz, secs) ==
    CASE tz = "+05:30" -> 19800
      [] tz = "UTC" -> 0
      [] tz = "America/New_York" -> IF secs < 9961200 THEN -18000 ELSE -14400

\* Utc.from_utc_datetime(&naive).with_timezone(&tz).fixed_offset()
with_timezone_fixed_offset(naive, tz) ==
    <<naive[1], naive[2], tz_offset_at(tz, naive[1])>>

\* TimestampArray::value_as_datetime_with_tz(idx, tz).map(|d| d.fixed_offset())
value_as_datetime_with_tz(unit, raw, tz) ==
    LET naive == value_as_datetime(unit, raw)
    IN  IF naive.some THEN Some(with_timezone_fixed_offset(naive.val, tz)) ELSE None

(***************************************************************************)
(* Column arrays.  A cell is [null, v, items]: v is the stored value of a  *)
(* scalar cell, items the sub-array (a sequence of cells) of a list cell.  *)
(***************************************************************************)
MaxListLen == 2

Cell(v) == [null |-> FALSE, v |-> v, items |-> <<>>]

ListCell(items) == [null |-> FALSE, v |-> <<>>, items |-> items]

NullCell == [null |-> TRUE, v |-> <<>>, items |-> <<>>]

TemporalValues(vs, fars) == {<<v, far>> : v \in vs, far \in fars}

\* the stored values of a scalar column of type t
RawValues(t) ==
    CASE t.k = "Null" -> {<<>>}
      [] t.k = "Boolean" -> {<<0>>, <<1>>}
      [] t.k \in {"Int8", "Int16", "Int32", "Int64"} -> SignedValues(WidthOf(t.k))
      [] t.k \in {"UInt8", "UInt16", "UInt32", "UInt64"} -> UnsignedValues(WidthOf(t.k))
      [] t.k \in {"Float16", "Float32", "Float64"} -> {<<0>>, <<15>>}
      [] t.k \in {"Utf8", "LargeUtf8", "Utf8View"} -> {<<>>, <<104, 105>>}
      [] t.k \in {"Binary", "FixedSizeBinary", "LargeBinary"} -> {<<>>, <<0, 255>>}
      [] t.k = "Date32" -> TemporalValues({-1, 0, 19675}, {0, 1})
      [] t.k = "Date64" -> TemporalValues({-1, 0, 86400000}, {0, 1})
      [] t.k \in {"Time32", "Time64"} -> TemporalValues({0, 1500}, {0})
      [] t.k = "Timestamp" ->
            TemporalValues({-1, 0, 1500, 10000000},
                           IF t.unit = "Nanosecond" THEN {0} ELSE {0, 1})
      [] OTHER -> {<<0>>}

\* the stored values the elements of a list cell are drawn from
ElemValues(t) ==
    CASE t.k \in {"UInt8", "UInt16", "UInt32", "UInt64"} ->
            {<<0>> \o Bytes(WidthOf(t.k), top, 255) : top \in {127, 128}}
      [] t.k \in {"Int8", "Int16", "Int32", "Int64"} ->
            {<<0>> \o Bytes(WidthOf(t.k), 127, 255), <<1>> \o LowOne(WidthOf(t.k))}
      [] t.k \in {"Date32", "Date64"} -> TemporalValues({19675}, {0, 1})
      [] t.k = "Timestamp" ->
            TemporalValues({1500}, IF t.unit = "Nanosecond" THEN {0} ELSE {0, 1})
      [] t.k \in {"Time32", "Time64"} -> TemporalValues({1500}, {0})
      [] t.k \in {"Utf8", "LargeUtf8", "Utf8View", "Binary", "FixedSizeBinary",
                  "LargeBinary"} -> {<<104, 105>>}
      [] t.k = "Null" -> {}
      [] OTHER -> {<<0>>, <<1>>}

SeqsUpTo(S, n) == UNION {[1..m -> S] : m \in 0..n}

\* the non-null cells of a column of type t
CellsOf(t) ==
    IF IsList(t)
    THEN IF IsList(t.elem)
         THEN {ListCell(<<>>), ListCell(<<ListCell(<<>>)>>)}
         ELSE {ListCell(l) : l \in SeqsUpTo({NullCell} \cup {Cell(v) : v \in ElemValues(t.elem)},
                                         MaxListLen)}
    ELSE {Cell(v) : v \in RawValues(t)}

Array(t, cells) == [data_type |-> t, cells |-> cells]

(***************************************************************************)
(* DataRowEncoder: the fields written so far.  A field is what             *)
(* encode_field was given: the Rust type of the value (form), the value,   *)
(* and for a Vec<Option<T>> the element type and the optional elements.    *)
(* None of any Option<T> is the absent (NULL) field.                       *)
(***************************************************************************)
Field(form, val) == [form |-> form, elem |-> "-", val |-> val, items |-> <<>>]

NullField == [form |-> "null", elem |-> "-", val |-> <<>>, items |-> <<>>]

OptionField(form, opt) == IF opt.some THEN Field(form, opt.val) ELSE NullField

VecField(elem, items) == [form |-> "vec", elem |-> elem, val |-> <<>>, items |-> items]

\* DataRowEncoder::encode_field
encode_field(enc, field) == Append(enc, field)

NoError ==
    [tag |-> "None", kind |-> "-", severity |-> "-", code |-> "-", message |-> "-"]

\* an ok return that leaves one more field behind in the encoder
EncOk_after_field(enc) ==
    [tag |-> "Ok", err |-> NoError, fields |-> Append(enc, NullField)]

\* encode_value returned Ok(()), with the encoder as it left it
EncOk(enc) == [tag |-> "Ok", err |-> NoError, fields |-> enc]

\* an error return that leaves a field behind in the encoder
EncErr_after_field(e, enc) ==
    [tag |-> "Err", err |-> e, fields |-> Append(enc, NullField)]

\* encode_value returned Err(e)
EncErr(e, enc) == [tag |-> "Err", err |-> e, fields |-> enc]

\* encode_value panicked: Option::unwrap on None
EncPanic(enc) == [tag |-> "Panic", err |-> NoError, fields |-> enc]

(***************************************************************************)
(* encode_value (lines 242-625)                                            *)
(***************************************************************************)
\* PrimitiveArray::iter().collect(): Vec<Option<T>> of the sub-array
iter_collect(list) ==
    [i \in 1..Len(list) |-> IF list[i].null THEN None ELSE Some(list[i].v)]

\* .iter().map(|val| val.map(f)).collect()
iter_map_collect(list, f(_)) ==
    [i \in 1..Len(list) |-> IF list[i].null THEN None ELSE Some(f(list[i].v))]

\* .iter().map(|i| i.and_then(f)).collect()
iter_and_then_collect(list, f(_)) ==
    [i \in 1..Len(list) |-> IF list[i].null THEN None ELSE f(list[i].v)]

\* lines 155-162: the elements of unsigned 8/16/64-bit lists are cast
get_u8_list_value(list) == iter_map_collect(list, as_signed)

get_u16_list_value(list) == iter_map_collect(list, as_signed)

get_u64_list_value(list) == iter_map_collect(list, as_signed)

\* line 159: the elements of a u32 list are collected as they are
get_u32_list_value(list) == iter_collect(list)

\* lines 470-494, 505-529, 540-564: Timestamp(Second | Millisecond |
\* Microsecond) elements go through chrono's fallible constructors
timestamp_list_items(unit, tz, list) ==
    IF tz # NoTz
    THEN iter_and_then_collect(list,
            LAMBDA i : LET dt == from_timestamp(unit, i)
                       IN  IF dt.some
                           THEN Some(with_timezone_fixed_offset(dt.val, tz))
                           ELSE None)
    ELSE iter_and_then_collect(list, LAMBDA i : from_timestamp(unit, i))

\* lines 575-595: Timestamp(Nanosecond) elements, infallible
timestamp_nanos_list_items(tz, list) ==
    IF tz # NoTz
    THEN iter_map_collect(list,
            LAMBDA i : with_timezone_fixed_offset(from_timestamp_nanos(i), tz))
    ELSE iter_map_collect(list, LAMBDA i : from_timestamp_nanos(i))

\* lines 349-611: the arm for List | FixedSizeList | LargeList.  Every arm
\* that reads the cell starts with
\* arr.as_any().downcast_ref::<ListArray>().unwrap(), which is None.unwrap()
\* for a FixedSizeListArray or a LargeListArray.
encode_list_value(enc, a, idx) ==
    LET e == a.data_type.elem
        list == a.cells[idx].items
        is_list_array == a.data_type.k = "List"
        vec(elem, items) ==
            IF is_list_array
            THEN EncOk(encode_field(enc, VecField(elem, items)))
            ELSE EncPanic(enc)
    IN  CASE e.k = "Null" -> EncOk(encode_field(enc, NullField))
          [] e.k = "Boolean" -> vec("bool", iter_collect(list))
          [] e.k = "Int8" -> vec("i8", iter_collect(list))
          [] e.k = "Int16" -> vec("i16", iter_collect(list))
          [] e.k = "Int32" -> vec("i32", iter_collect(list))
          [] e.k = "Int64" -> vec("i64", iter_collect(list))
          [] e.k = "UInt8" -> vec("i8", get_u8_list_value(list))
          [] e.k = "UInt16" -> vec("i16", get_u16_list_value(list))
          [] e.k = "UInt32" -> vec("u32", get_u32_list_value(list))
          [] e.k = "UInt64" -> vec("i64", get_u64_list_value(list))
          [] e.k = "Float32" -> vec("f32", iter_collect(list))
          [] e.k = "Float64" -> vec("f64", iter_collect(list))
          [] e.k = "Utf8" -> vec("str", iter_collect(list))
          [] e.k = "Binary" -> vec("bytes", iter_collect(list))
          [] e.k = "LargeBinary" -> vec("bytes", iter_collect(list))
          [] e.k = "Date32" -> vec("i32", iter_collect(list))
          [] e.k = "Date64" -> vec("i64", iter_collect(list))
          [] e.k = "Time32" ->
                IF e.unit \in {"Second", "Millisecond"}
                THEN vec("i32", iter_collect(list))
                ELSE EncOk(enc)
          [] e.k = "Time64" ->
                IF e.unit \in {"Microsecond", "Nanosecond"}
                THEN vec("i64", iter_collect(list))
                ELSE EncOk(enc)
          [] e.k = "Timestamp" ->
                IF ~is_list_array THEN EncPanic(enc)
                ELSE IF e.tz # NoTz /\ ~tz_from_str(e.tz)
                THEN EncErr(ApiError("timezone"), enc)
                ELSE vec(IF e.tz # NoTz THEN "DateTimeFixed" ELSE "NaiveDateTime",
                         IF e.unit = "Nanosecond"
                         THEN timestamp_nanos_list_items(e.tz, list)
                         ELSE timestamp_list_items(e.unit, e.tz, list))
          [] OTHER ->
                EncErr(UserError("ERROR", "XX000", "Unsupported List Datatype"), enc)

\* lines 281-347: the four unit arms of a scalar Timestamp are alike
encode_timestamp_value(enc, unit, tz, raw) ==
    IF tz # NoTz
    THEN IF tz_from_str(tz)
         THEN EncOk(encode_field(enc,
                 OptionField("DateTimeFixed", value_as_datetime_with_tz(unit, raw, tz))))
         ELSE EncErr(ApiError("timezone"), enc)
    ELSE EncOk(encode_field(enc,
                 OptionField("NaiveDateTime", value_as_datetime(unit, raw))))

\* lines 242-625.  idx counts from 1.
encode_value(enc, a, idx) ==
    LET t == a.data_type
        raw == a.cells[idx].v
        put(field) == EncOk(encode_field(enc, field))
    IN  CASE t.k = "Null" -> put(NullField)
          [] t.k = "Boolean" -> put(Field("bool", raw))
          [] t.k = "Int8" -> put(Field("i8", raw))
          [] t.k = "Int16" -> put(Field("i16", raw))
          [] t.k = "Int32" -> put(Field("i32", raw))
          [] t.k = "Int64" -> put(Field("i64", raw))
          [] t.k = "UInt8" -> put(Field("i8", as_signed(raw)))
          [] t.k = "UInt16" -> put(Field("i16", as_signed(raw)))
          [] t.k = "UInt32" -> put(Field("u32", raw))
          [] t.k = "UInt64" -> put(Field("i64", as_signed(raw)))
          [] t.k = "Float32" -> put(Field("f32", raw))
          [] t.k = "Float64" -> put(Field("f64", raw))
          [] t.k = "Utf8" -> put(Field("str", raw))
          [] t.k = "Utf8View" -> put(Field("str", raw))
          [] t.k = "LargeUtf8" -> put(Field("str", raw))
          [] t.k = "Binary" -> put(Field("bytes", raw))
          [] t.k = "LargeBinary" -> put(Field("bytes", raw))
          [] t.k = "Date32" -> put(OptionField("NaiveDate", value_as_date(t.k, raw)))
          [] t.k = "Date64" -> put(OptionField("NaiveDate", value_as_date(t.k, raw)))
          [] t.k = "Time32" ->
                IF t.unit \in {"Second", "Millisecond"}
                THEN put(OptionField("NaiveDateTime", time_value_as_datetime(t.unit, raw)))
                ELSE EncOk(enc)
          [] t.k = "Time64" ->
                IF t.unit \in {"Microsecond", "Nanosecond"}
                THEN put(OptionField("NaiveDateTime", time_value_as_datetime(t.unit, raw)))
                ELSE EncOk(enc)
          [] t.k = "Timestamp" -> encode_timestamp_value(enc, t.unit, t.tz, raw)
          [] t.k \in ListKinds -> encode_list_value(enc, a, idx)
          [] OTHER -> EncErr(UserError("ERROR", "XX000", "Unsupported Datatype"), enc)

(***************************************************************************)
(* encode_dataframe (lines 648-691): the batch-to-row adapter.             *)
(*                                                                         *)
(* upstream is what df.execute_stream() yields, item by item: a            *)
(* RecordBatch (one column array per schema field, all of `rows` cells) or *)
(* an error.  map + flatten turn each item into an iterator of rows and    *)
(* yield the rows one poll at a time.                                      *)
(***************************************************************************)
MaxCols == 2

MaxRows == 2

MaxItems == 2

Batch(columns, rows) == [tag |-> "Batch", columns |-> columns, rows |-> rows]

UpstreamError == [tag |-> "Err", columns |-> <<>>, rows |-> 0]

\* an item of pg_row_stream: Ok(DataRow) or Err(PgWireError)
RowItem(row_fields) == [tag |-> "Row", fields |-> row_fields, err |-> NoError]

ErrorItem(e) == [tag |-> "Err", fields |-> <<>>, err |-> e]

RECURSIVE schema_fields(_, _)
\* lines 631-645: map into_pg_type over the fields and collect into a
\* Result, which stops at the first Err
schema_fields(sch, col) ==
    IF col > Len(sch) THEN [tag |-> "Ok", types |-> <<>>, err |-> NoError]
    ELSE LET ty == into_pg_type(sch[col])
         IN  IF ty.tag = "Err" THEN [tag |-> "Err", types |-> <<>>, err |-> ty]
             ELSE LET rest == schema_fields(sch, col + 1)
                  IN  IF rest.tag = "Err" THEN rest
                      ELSE [rest EXCEPT !.types = <<ty.ty>> \o @]

\* lines 627-646
df_schema_to_pg_fields(sch) == schema_fields(sch, 1)

RECURSIVE encode_columns(_, _, _, _)
\* lines 671-678: the loop over the columns of one row; both unwrap()s
\* panic on Err, and a panic inside encode_value unwinds through the loop
encode_columns(enc, rb, r, col) ==
    IF col > Len(rb.columns) THEN EncOk(enc)
    ELSE LET array == rb.columns[col]
             res == IF array.cells[r].null
                    THEN EncOk(encode_field(enc, NullField))
                    ELSE encode_value(enc, array, r)
         IN  IF res.tag = "Ok"
             THEN encode_columns(res.fields, rb, r, col + 1)
             ELSE EncPanic(res.fields)

\* lines 669-680: one row of a batch, from a new encoder to finish()
encode_row(rb, r) == encode_columns(<<>>, rb, r, 1)

(***************************************************************************)
(* deserialize_parameters (lines 700-802)                                  *)
(*                                                                         *)
(* parameter_types is portal.statement.parameter_types, the wire types the *)
(* client declared (possibly fewer than the parameters); inferenced_types  *)
(* holds the engine's Option<&DataType> per position; parameters holds the *)
(* payloads.  Positions count from 1.                                      *)
(***************************************************************************)
MaxParams == 2

\* Option<&Type>::None, and Option<&DataType>::None
NoType == "-"

NoDataType == [k |-> "None", unit |-> "-", tz |-> NoTz]

\* a lookup that reads the first entry whatever the position
get_first(vec, i, absent) == IF 1 <= Len(vec) THEN vec[1] ELSE absent

\* Vec::get(i) / slice::get(i).and_then(|v| v.to_owned()) (lines 728-729)
get(vec, i, absent) == IF i <= Len(vec) THEN vec[i] ELSE absent

\* the resolution with the inferred type consulted before the declared one
get_pg_type_inferred_first(pg_type_hint, inferenced_type) ==
    IF inferenced_type # NoDataType THEN into_pg_type(inferenced_type)
    ELSE IF pg_type_hint # NoType THEN OkType(pg_type_hint)
    ELSE UserError("FATAL", "XX000", "Unknown parameter type")

\* lines 707-722
get_pg_type(pg_type_hint, inferenced_type) ==
    IF pg_type_hint # NoType THEN OkType(pg_type_hint)
    ELSE IF inferenced_type # NoDataType THEN into_pg_type(inferenced_type)
    ELSE UserError("FATAL", "XX000", "Unknown parameter type")

\* a payload: SQL NULL, bytes that decode as the requested type, or bytes
\* that do not
NullPayload == "null"

ValidPayload == "valid"

MalformedPayload == "malformed"

\* a second payload that decodes, to another value
AlternatePayload == "alternate"

\* the native value a valid payload decodes to under each wire type
DecodedSample(ty) ==
    CASE ty = "BOOL" -> <<1>>
      [] ty = "CHAR" -> <<1, 1>>
      [] ty = "INT2" -> <<0, 1, 0>>
      [] ty = "INT4" -> <<0, 0, 0, 0, 7>>
      [] ty = "INT8" -> <<1, 0, 0, 0, 0, 0, 0, 0, 7>>
      [] ty \in {"TEXT", "VARCHAR"} -> <<111, 107>>
      [] ty = "BYTEA" -> <<0, 255>>
      [] ty \in {"FLOAT4", "FLOAT8"} -> <<15>>
      [] ty = "TIMESTAMP" -> <<1500, 250000000>>
      [] ty = "TIMESTAMPTZ" -> <<1500, 250000000, 19800>>
      [] ty = "DATE" -> <<2023, 11, 14>>

\* the native value the alternate payload decodes to
AlternateSample(ty) ==
    CASE ty = "BOOL" -> <<0>>
      [] ty = "INT4" -> <<1, 0, 0, 0, 9>>
      [] ty = "TIMESTAMP" -> <<-1, 999999000>>
      [] ty = "TIMESTAMPTZ" -> <<1200, 0, -18000>>
      [] ty = "DATE" -> <<1969, 12, 31>>
      [] OTHER -> DecodedSample(ty)

\* Portal::parameter::<T>(i, &pg_type): Ok(None), Ok(Some(value)) or Err
portal_parameter(payload, ty) ==
    CASE payload = NullPayload -> [tag |-> "Ok", opt |-> None]
      [] payload = ValidPayload -> [tag |-> "Ok", opt |-> Some(DecodedSample(ty))]
      [] payload = AlternatePayload -> [tag |-> "Ok", opt |-> Some(AlternateSample(ty))]
      [] OTHER -> [tag |-> "Err", opt |-> None]

\* ScalarValue::<variant>(Option<value>) and, for TimestampMicrosecond, the
\* Option<Arc<str>> zone
ScalarValue(variant, opt, tz) == [variant |-> variant, value |-> opt, tz |-> tz]

\* NaiveDateTime::and_utc().timestamp_micros(), DateTime::timestamp_micros()
timestamp_micros(t) == <<t[1] * 1000000 + t[2] \div 1000>>

\* the rendering that ignores the offset
offset_to_string_utc(secs) == "+00:00"

\* FixedOffset::to_string()
offset_to_string(secs) ==
    CASE secs = 0 -> "+00:00"
      [] secs = 19800 -> "+05:30"
      [] secs = -18000 -> "-05:00"

\* Date32Type::from_naive_date: days since 1970-01-01
from_naive_date(date) ==
    LET m == date[2]
        d == date[3]
        y == date[1] - (IF m <= 2 THEN 1 ELSE 0)
        era == y \div 400
        yoe == y - era * 400
        doy == (153 * (IF m > 2 THEN m - 3 ELSE m + 9) + 2) \div 5 + d - 1
        doe == yoe * 365 + yoe \div 4 - yoe \div 100 + doy
    IN  <<era * 146097 + doe - 719468>>

\* Option::map
map(opt, f(_)) == IF opt.some THEN Some(f(opt.val)) ELSE None

\* lines 731-798: the scalar one parameter decodes to under pg_type, an
\* error of portal.parameter, or the error of the default arm
deserialize_parameter(payload, ty) ==
    LET value == portal_parameter(payload, ty)
        push(variant, opt) ==
            IF value.tag = "Err"
            THEN [tag |-> "Err", err |-> ApiError("parameter"),
                  scalar |-> ScalarValue("-", None, NoTz)]
            ELSE [tag |-> "Ok", err |-> NoError, scalar |-> ScalarValue(variant, opt, NoTz)]
    IN  CASE ty = "BOOL" -> push("Boolean", value.opt)
          [] ty = "CHAR" -> push("Int8", value.opt)
          [] ty = "INT2" -> push("Int16", value.opt)
          [] ty = "INT4" -> push("Int32", value.opt)
          [] ty = "INT8" -> push("Int64", value.opt)
          [] ty \in {"TEXT", "VARCHAR"} -> push("Utf8", value.opt)
          [] ty = "BYTEA" -> push("Binary", value.opt)
          [] ty = "FLOAT4" -> push("Float32", value.opt)
          [] ty = "FLOAT8" -> push("Float64", value.opt)
          [] ty = "TIMESTAMP" ->
                push("TimestampMicrosecond", map(value.opt, timestamp_micros))
          [] ty = "TIMESTAMPTZ" ->
                IF value.tag = "Err" THEN push("-", None)
                ELSE [tag |-> "Ok", err |-> NoError,
                      scalar |->
                          ScalarValue("TimestampMicrosecond",
                                      map(value.opt, timestamp_micros),
                                      IF value.opt.some
                                      THEN offset_to_string(value.opt.val[3])
                                      ELSE NoTz)]
          [] ty = "DATE" -> push("Date32", map(value.opt, from_naive_date))
          [] OTHER ->
                [tag |-> "Err",
                 err |-> UserError("FATAL", "XX000", "Unsupported parameter type"),
                 scalar |-> ScalarValue("-", None, NoTz)]

vars ==
    <<df_type, pg_result, arr, encoder, enc_result, time_datetime,
      schema, upstream, polled, row, output, pg_fields, pc,
      parameters, parameter_types, inferenced_types, pg_type, param_i, deserialized_params, ret>>

\* the variables of SpecParams, which the other specifications leave idle
params_vars ==
    <<parameters, parameter_types, inferenced_types, pg_type, param_i, deserialized_params, ret>>

ParamsIdle ==
    /\ parameters = <<>>
    /\ parameter_types = <<>>
    /\ inferenced_types = <<>>
    /\ pg_type = Idle
    /\ param_i = 0
    /\ deserialized_params = <<>>
    /\ ret = Idle

\* the variables of SpecAdapter, which the other specifications leave idle
adapter_vars == <<schema, upstream, polled, row, output, pg_fields, pc>>

AdapterIdle ==
    /\ schema = <<>>
    /\ upstream = <<>>
    /\ polled = 0
    /\ row = 0
    /\ output = <<>>
    /\ pg_fields = Idle
    /\ pc = "idle"

(***************************************************************************)
(* SpecType: into_pg_type applied to every type of the palette.            *)
(***************************************************************************)
InitType ==
    /\ df_type \in DataTypes
    /\ pg_result = Pending
    /\ arr = Idle
    /\ encoder = <<>>
    /\ enc_result = Idle
    /\ time_datetime = FALSE
    /\ AdapterIdle
    /\ ParamsIdle

MapType ==
    /\ pg_result = Pending
    /\ pg_result' = into_pg_type(df_type)
    /\ UNCHANGED <<df_type, arr, encoder, enc_result, time_datetime, adapter_vars,
                   params_vars>>

NextType == MapType

SpecType == InitType /\ [][NextType]_vars

(***************************************************************************)
(* SpecEncode: encode_value on one non-null cell of a one-row column of    *)
(* every type, into a fresh encoder or one that holds a field already.     *)
(* encoder is the encoder as handed in; enc_result.fields is the encoder   *)
(* as encode_value left it.                                                *)
(***************************************************************************)
\* the one-row columns of every type
OneRowArrays == UNION {{Array(t, <<c>>) : c \in CellsOf(t)} : t \in DataTypes}

InitEncode ==
    /\ arr \in OneRowArrays
    /\ encoder \in {<<>>, <<NullField>>}
    /\ enc_result = Pending
    /\ time_datetime \in BOOLEAN
    /\ df_type = Idle
    /\ pg_result = Idle
    /\ AdapterIdle
    /\ ParamsIdle

Encode ==
    /\ enc_result = Pending
    /\ enc_result' = encode_value(encoder, arr, 1)
    /\ UNCHANGED <<df_type, pg_result, arr, encoder, time_datetime, adapter_vars,
                   params_vars>>

NextEncode == Encode

SpecEncode == InitEncode /\ [][NextEncode]_vars

(***************************************************************************)
(* SpecAdapter: encode_dataframe over a DataFrame whose schema has up to   *)
(* MaxCols columns and whose stream yields up to MaxItems items, each a    *)
(* batch of up to MaxRows rows or an error.                                *)
(***************************************************************************)
\* column types: encodable ones, the ones into_pg_type accepts and
\* encode_value skips, rejects or panics on, and one into_pg_type rejects
AdapterTypes ==
    {Plain("Int32"), Plain("Utf8"), Plain("Float16"), Plain("Decimal128"),
     Time32("Microsecond"), Timestamp("Second", "Mars/Olympus"),
     ListOf("List", Plain("Int32")), ListOf("FixedSizeList", Plain("Int32"))}

\* the non-null cell the columns of type t hold
SampleCell(t) ==
    CASE t.k = "Int32" -> Cell(<<0, 0, 0, 0, 42>>)
      [] t.k = "Utf8" -> Cell(<<104, 105>>)
      [] t.k \in {"Time32", "Timestamp"} -> Cell(<<1500, 0>>)
      [] t.k \in ListKinds -> ListCell(<<Cell(<<0, 0, 0, 0, 1>>), NullCell>>)
      [] OTHER -> Cell(<<0>>)

Schemas == UNION {[1..n -> AdapterTypes] : n \in 1..MaxCols}

\* the batches under schema sch: up to MaxRows rows, every cell null or the
\* sample cell of its column
BatchesUnder(sch) ==
    UNION {{Batch([col \in 1..Len(sch) |->
                     Array(sch[col],
                           [r \in 1..rows |->
                              IF mask[col][r] THEN NullCell ELSE SampleCell(sch[col])])],
                  rows) :
              mask \in [1..Len(sch) -> [1..rows -> BOOLEAN]]} : rows \in 0..MaxRows}

InitAdapter ==
    /\ schema \in Schemas
    /\ upstream \in SeqsUpTo(BatchesUnder(schema) \cup {UpstreamError}, MaxItems)
    /\ polled = 0
    /\ row = 0
    /\ output = <<>>
    /\ pg_fields = Pending
    /\ pc = "start"
    /\ time_datetime = FALSE
    /\ df_type = Idle
    /\ pg_result = Idle
    /\ arr = Idle
    /\ encoder = <<>>
    /\ enc_result = Idle
    /\ ParamsIdle

\* lines 652-657 and 690: the schema is translated and the stream opened;
\* either may fail, and then no response is returned
EncodeDataframe ==
    /\ pc = "start"
    /\ pg_fields' = df_schema_to_pg_fields(schema)
    /\ \E execute_stream_ok \in BOOLEAN :
          pc' = IF pg_fields'.tag = "Ok" /\ execute_stream_ok
                THEN "streaming" ELSE "failed"
    /\ UNCHANGED <<schema, upstream, polled, row, output, df_type, pg_result,
                   arr, encoder, enc_result, time_datetime, params_vars>>

\* the items the iterator made of the current upstream item still holds
Remaining ==
    IF polled = 0 THEN 0
    ELSE IF upstream[polled].tag = "Err" THEN 1 - row
    ELSE upstream[polled].rows - row

\* lines 661-687: flatten polls the upstream when the current iterator is
\* used up, and map turns the item into the next iterator
PollUpstream ==
    /\ pc = "streaming"
    /\ Remaining = 0
    /\ polled < Len(upstream)
    /\ polled' = polled + 1
    /\ row' = 0
    /\ UNCHANGED <<schema, upstream, output, pg_fields, pc, df_type, pg_result,
                   arr, encoder, enc_result, time_datetime, params_vars>>

\* lines 669-680: the next row of the current batch
EmitRow ==
    /\ pc = "streaming"
    /\ Remaining > 0
    /\ upstream[polled].tag = "Batch"
    /\ LET res == encode_row(upstream[polled], row + 1)
       IN  IF res.tag = "Ok"
           THEN /\ output' = Append(output, RowItem(res.fields))
                /\ row' = row + 1
                /\ pc' = pc
           ELSE /\ pc' = "panicked"
                /\ UNCHANGED <<output, row>>
    /\ UNCHANGED <<schema, upstream, polled, pg_fields, df_type, pg_result,
                   arr, encoder, enc_result, time_datetime, params_vars>>

\* line 683: the one error row of an upstream error
EmitErrorRow ==
    /\ pc = "streaming"
    /\ Remaining > 0
    /\ upstream[polled].tag = "Err"
    /\ output' = Append(output, ErrorItem(ApiError("upstream")))
    /\ row' = row + 1
    /\ UNCHANGED <<schema, upstream, polled, pg_fields, pc, df_type, pg_result,
                   arr, encoder, enc_result, time_datetime, params_vars>>

\* the upstream has ended and so does pg_row_stream
EndOfStream ==
    /\ pc = "streaming"
    /\ Remaining = 0
    /\ polled = Len(upstream)
    /\ pc' = "done"
    /\ UNCHANGED <<schema, upstream, polled, row, output, pg_fields, df_type,
                   pg_result, arr, encoder, enc_result, time_datetime, params_vars>>

NextAdapter ==
    \/ EncodeDataframe
    \/ PollUpstream
    \/ EmitRow
    \/ EmitErrorRow
    \/ EndOfStream

SpecAdapter == InitAdapter /\ [][NextAdapter]_vars

(***************************************************************************)
(* SpecParams: deserialize_parameters over portals of up to MaxParams      *)
(* parameters.                                                             *)
(***************************************************************************)
\* wire types a client declares: the thirteen the decoder has arms for, the
\* unknown type, and two it has no arm for
HintTypes ==
    {"BOOL", "CHAR", "INT2", "INT4", "INT8", "FLOAT4", "FLOAT8", "TEXT",
     "VARCHAR", "BYTEA", "TIMESTAMP", "TIMESTAMPTZ", "DATE",
     "UNKNOWN", "INTERVAL", "INT4_ARRAY"}

\* types the engine infers
InferredTypes ==
    {Plain("Int32"), Plain("Utf8"), Plain("Decimal128"), Interval("DayTime"),
     Timestamp("Microsecond", NoTz), Timestamp("Nanosecond", "UTC")}

\* one position of a call: the declared type or NoType, the inferred type
\* or NoDataType, and the payload.  get_pg_type does not look into a hint,
\* so a hint meets an inferred type for three hints only.
Positions ==
    {[hint |-> h, inferred |-> NoDataType, payload |-> p] :
        h \in HintTypes, p \in {NullPayload, ValidPayload}}
    \cup {[hint |-> h, inferred |-> Plain("Utf8"), payload |-> p] :
            h \in {"INT4", "UNKNOWN", "INTERVAL"}, p \in {NullPayload, ValidPayload}}
    \cup {[hint |-> NoType, inferred |-> t, payload |-> p] :
            t \in InferredTypes \cup {NoDataType}, p \in {NullPayload, ValidPayload}}
    \cup {[hint |-> h, inferred |-> NoDataType, payload |-> AlternatePayload] :
            h \in {"BOOL", "INT4", "TIMESTAMP", "TIMESTAMPTZ", "DATE"}}
    \cup {[hint |-> "INT4", inferred |-> NoDataType, payload |-> MalformedPayload]}

\* declared types come as a vector: the positions that have one are a prefix
HintsArePrefix(ps) ==
    \A a, b \in 1..Len(ps) : (a < b /\ ps[b].hint # NoType) => ps[a].hint # NoType

RECURSIVE DropTrailing(_, _)
DropTrailing(s, x) ==
    IF s # <<>> /\ s[Len(s)] = x THEN DropTrailing(SubSeq(s, 1, Len(s) - 1), x) ELSE s

InitParams ==
    /\ \E ps \in SeqsUpTo(Positions, MaxParams) :
          /\ HintsArePrefix(ps)
          /\ parameters = [n \in 1..Len(ps) |-> ps[n].payload]
          /\ parameter_types = DropTrailing([n \in 1..Len(ps) |-> ps[n].hint], NoType)
          /\ \E trim \in BOOLEAN :
                inferenced_types =
                    IF trim
                    THEN DropTrailing([n \in 1..Len(ps) |-> ps[n].inferred], NoDataType)
                    ELSE [n \in 1..Len(ps) |-> ps[n].inferred]
    /\ pg_type = Pending
    /\ param_i = 1
    /\ deserialized_params = <<>>
    /\ ret = Pending
    /\ df_type = Idle
    /\ pg_result = Idle
    /\ arr = Idle
    /\ encoder = <<>>
    /\ enc_result = Idle
    /\ time_datetime = FALSE
    /\ AdapterIdle

\* lines 726-799: one turn of the loop; `?` and the default arm return
DeserializeParam ==
    /\ ret = Pending
    /\ param_i <= Len(parameters)
    /\ pg_type' = get_pg_type(get(parameter_types, param_i, NoType),
                              get(inferenced_types, param_i, NoDataType))
    /\ IF pg_type'.tag = "Err"
       THEN /\ ret' = [tag |-> "Err", err |-> pg_type', params |-> <<>>]
            /\ UNCHANGED <<param_i, deserialized_params>>
       ELSE LET res == deserialize_parameter(parameters[param_i], pg_type'.ty)
            IN  IF res.tag = "Err"
                THEN /\ ret' = [tag |-> "Err", err |-> res.err, params |-> <<>>]
                     /\ UNCHANGED <<param_i, deserialized_params>>
                ELSE /\ deserialized_params' = Append(deserialized_params, res.scalar)
                     /\ param_i' = param_i + 1
                     /\ ret' = ret
    /\ UNCHANGED <<parameters, parameter_types, inferenced_types, df_type,
                   pg_result, arr, encoder, enc_result, time_datetime, adapter_vars>>

\* line 801
ReturnParams ==
    /\ ret = Pending
    /\ param_i > Len(parameters)
    /\ ret' = [tag |-> "Ok", err |-> NoError, params |-> deserialized_params]
    /\ UNCHANGED <<parameters, parameter_types, inferenced_types, pg_type, param_i,
                   deserialized_params, df_type, pg_result, arr, encoder,
                   enc_result, time_datetime, adapter_vars>>

NextParams == DeserializeParam \/ ReturnParams

SpecParams == InitParams /\ [][NextParams]_vars

(***************************************************************************)
(* The wire types of the section 4.1 table, written out entry by entry,    *)
(* and the array form of each scalar wire type.                            *)
(***************************************************************************)
Section41Types == {t \in ScalarTypes : t.k \notin {"Duration", "Decimal128", "Struct"}}

Section41Wire(t) ==
    CASE t = Plain("Null") -> "UNKNOWN"
      [] t = Plain("Boolean") -> "BOOL"
      [] t = Plain("Int8") -> "CHAR"
      [] t = Plain("UInt8") -> "CHAR"
      [] t = Plain("Int16") -> "INT2"
      [] t = Plain("UInt16") -> "INT2"
      [] t = Plain("Int32") -> "INT4"
      [] t = Plain("UInt32") -> "INT4"
      [] t = Plain("Int64") -> "INT8"
      [] t = Plain("UInt64") -> "INT8"
      [] t = Plain("Float16") -> "FLOAT4"
      [] t = Plain("Float32") -> "FLOAT4"
      [] t = Plain("Float64") -> "FLOAT8"
      [] t = Plain("Date32") -> "DATE"
      [] t = Plain("Date64") -> "DATE"
      [] t \in {Time32(u) : u \in TimeUnits} -> "TIME"
      [] t \in {Time64(u) : u \in TimeUnits} -> "TIME"
      [] t \in {Interval(u) : u \in IntervalUnits} -> "INTERVAL"
      [] t = Plain("Binary") -> "BYTEA"
      [] t = Plain("FixedSizeBinary") -> "BYTEA"
      [] t = Plain("LargeBinary") -> "BYTEA"
      [] t = Plain("Utf8") -> "VARCHAR"
      [] t = Plain("LargeUtf8") -> "TEXT"
      [] t = Plain("Utf8View") -> "TEXT"
      [] t \in {Timestamp(u, NoTz) : u \in TimeUnits} -> "TIMESTAMP"
      [] t \in {Timestamp(u, tz) : u \in TimeUnits, tz \in TzStrings} -> "TIMESTAMPTZ"

ArrayForm(w) ==
    CASE w = "UNKNOWN" -> "UNKNOWN_ARRAY"
      [] w = "BOOL" -> "BOOL_ARRAY"
      [] w = "CHAR" -> "CHAR_ARRAY"
      [] w = "INT2" -> "INT2_ARRAY"
      [] w = "INT4" -> "INT4_ARRAY"
      [] w = "INT8" -> "INT8_ARRAY"
      [] w = "FLOAT4" -> "FLOAT4_ARRAY"
      [] w = "FLOAT8" -> "FLOAT8_ARRAY"
      [] w = "VARCHAR" -> "VARCHAR_ARRAY"
      [] w = "TEXT" -> "TEXT_ARRAY"
      [] w = "BYTEA" -> "BYTEA_ARRAY"
      [] w = "DATE" -> "DATE_ARRAY"
      [] w = "TIME" -> "TIME_ARRAY"
      [] w = "TIMESTAMP" -> "TIMESTAMP_ARRAY"
      [] w = "TIMESTAMPTZ" -> "TIMESTAMPTZ_ARRAY"
      [] w = "INTERVAL" -> "INTERVAL_ARRAY"

\* C3: for every scalar logical type, into_pg_type returns the wire type of
\* the section 4.1 table; a Timestamp maps to TIMESTAMPTZ exactly when its
\* zone is present, whatever its unit.
C3_ScalarWireTable ==
    (pg_result.tag # "Pending" /\ df_type \in Section41Types)
        => pg_result = OkType(Section41Wire(df_type))

\* into_pg_type has answered for a zoned nanosecond timestamp
C3_Witness ==
    /\ pg_result.tag = "Ok"
    /\ df_type = Timestamp("Nanosecond", "UTC")
    /\ pg_result.ty = "TIMESTAMPTZ"

\* C4: for every scalar type X the scalar map accepts and each list kind L,
\* into_pg_type(L(X)) succeeds with the array form of into_pg_type(X).
C4_ListIsArrayOfScalar ==
    (/\ pg_result.tag # "Pending"
     /\ IsList(df_type)
     /\ df_type.elem \in Section41Types
     /\ into_pg_type(df_type.elem).tag = "Ok")
        => pg_result = OkType(ArrayForm(into_pg_type(df_type.elem).ty))

(***************************************************************************)
(* Claims about encode_value.                                              *)
(***************************************************************************)
ValidZones == {tz \in TzStrings : tz_from_str(tz)}

\* the scalar logical types of the palette of section 3
PaletteScalars ==
    {Plain(k) : k \in {"Null", "Boolean", "Int8", "Int16", "Int32", "Int64",
                       "UInt8", "UInt16", "UInt32", "UInt64",
                       "Float16", "Float32", "Float64", "Date32", "Date64",
                       "Binary", "FixedSizeBinary", "LargeBinary",
                       "Utf8", "LargeUtf8", "Utf8View"}}
    \cup {Time32("Second"), Time32("Millisecond"),
          Time64("Microsecond"), Time64("Nanosecond")}
    \cup {Timestamp(u, tz) : u \in TimeUnits, tz \in ValidZones \cup {NoTz}}

\* the element types section 4.2 requires of list cells
SupportedListElems ==
    {Plain(k) : k \in {"Boolean", "Int8", "Int16", "Int32", "Int64",
                       "UInt8", "UInt16", "UInt32", "UInt64",
                       "Float32", "Float64", "Utf8", "Binary", "LargeBinary",
                       "Date32", "Date64"}}
    \cup {Time32("Second"), Time32("Millisecond"),
          Time64("Microsecond"), Time64("Nanosecond")}
    \cup {Timestamp(u, tz) : u \in TimeUnits, tz \in ValidZones \cup {NoTz}}

Palette ==
    PaletteScalars \cup {ListOf(kind, e) : kind \in ListKinds, e \in SupportedListElems}

\* the field encode_value wrote last
LastField == enc_result.fields[Len(enc_result.fields)]

\* C1: on a non-null cell of a column of any type of the palette,
\* encode_value returns ok, having written exactly one field into the row
\* encoder, and never panics.
C1_PaletteTotality ==
    (enc_result.tag # "Pending" /\ arr.data_type \in Palette)
        => /\ enc_result.tag = "Ok"
           /\ Len(enc_result.fields) = Len(encoder) + 1

RECURSIVE SumsToPower(_, _, _, _)
\* a + b = 256^n, adding the low n bytes from the last one up with `carry`
SumsToPower(a, b, n, carry) ==
    IF n = 0 THEN carry = 1
    ELSE LET s == a[n] + b[n] + carry
         IN  s % 256 = 0 /\ SumsToPower(a, b, n - 1, s \div 256)

\* the signed integer s is the N-bit unsigned v read as two's complement:
\* s = v below 2^(N-1), and s = v - 2^N from 2^(N-1) on
IsBitCast(s, v) ==
    LET smag == Tail(s)
        vmag == Tail(v)
    IN  /\ Len(smag) = Len(vmag)
        /\ IF s[1] = 0
           THEN smag = vmag /\ vmag[1] < 128
           ELSE vmag[1] >= 128 /\ SumsToPower(smag, vmag, Len(vmag), 0)

SignedTwin(k) ==
    CASE k = "UInt8" -> "i8"
      [] k = "UInt16" -> "i16"
      [] k = "UInt64" -> "i64"

CastKinds == {"UInt8", "UInt16", "UInt64"}

C6_ListElementNullability ==
    LET t == arr.data_type
        c == arr.cells[1]
    IN  (enc_result.tag = "Ok" /\ IsList(t) /\ t.elem \in SupportedListElems)
            => /\ Len(enc_result.fields) = Len(encoder) + 1
               /\ LastField.form = "vec"
               /\ Len(LastField.items) = Len(c.items)
               /\ \A i \in 1..Len(c.items) :
                    LastField.items[i].some <=> ~c.items[i].null

(***************************************************************************)
(* Claims about encode_dataframe.                                          *)
(***************************************************************************)
RECURSIVE SourcesFrom(_)
\* what the output should hold, item by item, for the upstream items from
\* the i-th on: a batch's rows in ascending index, one entry for an error
SourcesFrom(i) ==
    IF i > Len(upstream) THEN <<>>
    ELSE (IF upstream[i].tag = "Err"
          THEN <<[item |-> i, r |-> 0]>>
          ELSE [r \in 1..upstream[i].rows |-> [item |-> i, r |-> r]])
         \o SourcesFrom(i + 1)

Sources == SourcesFrom(1)

Stopped == pc \in {"done", "panicked"}

\* C2: in every row the adapter emits, the field at position col is the
\* absent value if the input cell (row, col) is null, and otherwise the one
\* field encode_value produces from that cell alone.
C2_NullabilityPreserved ==
    \A p \in 1..Len(output) :
        output[p].tag = "Row" =>
            LET rb == upstream[Sources[p].item]
                r == Sources[p].r
            IN  \A col \in 1..Len(schema) :
                    /\ col <= Len(output[p].fields)
                    /\ IF rb.columns[col].cells[r].null
                       THEN output[p].fields[col] = NullField
                       ELSE LET res == encode_value(<<>>, rb.columns[col], r)
                            IN  /\ res.tag = "Ok"
                                /\ res.fields = <<output[p].fields[col]>>

\* C7: when every upstream item is a batch, the output is the batches' rows
\* in batch order and ascending row index, none dropped, duplicated or
\* reordered: as many rows as the batches hold.
C7_RowsInOrder ==
    (\A i \in 1..Len(upstream) : upstream[i].tag = "Batch")
        => /\ Len(output) <= Len(Sources)
           /\ \A p \in 1..Len(output) :
                output[p] =
                    RowItem(encode_row(upstream[Sources[p].item], Sources[p].r).fields)
           /\ Stopped => Len(output) = Len(Sources)

\* C8: an upstream error puts one error row into the output, and the output
\* ends there: nothing follows an error row.
C8_ErrorTerminatesOutput ==
    /\ \A p \in 1..Len(output) :
            output[p].tag = "Err" <=> upstream[Sources[p].item].tag = "Err"
    /\ \A p \in 1..(Len(output) - 1) : output[p].tag # "Err"

\* C9: a cell whose encode_value fails makes its row an error item of the
\* output and never aborts the adapter.
C9_EncodeFailureIsErrorItem ==
    pc = "panicked" =>
        LET rb == upstream[Sources[Len(output) + 1].item]
            r == Sources[Len(output) + 1].r
        IN  ~\E col \in 1..Len(schema) :
                /\ ~rb.columns[col].cells[r].null
                /\ encode_value(<<>>, rb.columns[col], r).tag = "Err"


(***************************************************************************)
(* Claims about deserialize_parameters.                                    *)
(***************************************************************************)
\* the position the latest turn of the loop worked on (0 before the first)
LastPosition == IF ret.tag = "Err" THEN param_i ELSE param_i - 1

HintPresent(n) == n <= Len(parameter_types)

InferredPresent(n) == n <= Len(inferenced_types) /\ inferenced_types[n] # NoDataType

DecodableTypes ==
    {"BOOL", "CHAR", "INT2", "INT4", "INT8", "FLOAT4", "FLOAT8", "TEXT",
     "VARCHAR", "BYTEA", "TIMESTAMP", "TIMESTAMPTZ", "DATE"}

\* the scalar variant the parameter table gives for a wire type
VariantOf(w) ==
    CASE w = "BOOL" -> "Boolean"
      [] w = "CHAR" -> "Int8"
      [] w = "INT2" -> "Int16"
      [] w = "INT4" -> "Int32"
      [] w = "INT8" -> "Int64"
      [] w = "FLOAT4" -> "Float32"
      [] w = "FLOAT8" -> "Float64"
      [] w \in {"TEXT", "VARCHAR"} -> "Utf8"
      [] w = "BYTEA" -> "Binary"
      [] w \in {"TIMESTAMP", "TIMESTAMPTZ"} -> "TimestampMicrosecond"
      [] w = "DATE" -> "Date32"

\* the offset the client wrote in each timestamptz payload
ParameterOffsetString(payload) ==
    CASE payload = ValidPayload -> "+05:30"
      [] payload = AlternatePayload -> "-05:00"

\* the latest turn of the loop pushed a scalar
TurnSucceeded == ret.tag \in {"Pending", "Ok"} /\ LastPosition >= 1

\* C11: the scalar pushed for a parameter resolved to wire type w has the
\* variant the table gives for w; its zone is absent for every type but
\* TIMESTAMPTZ, where it is the offset string of the parameter; a null
\* payload gives the same variant carrying the absent value.
C11_VariantByWireType ==
    TurnSucceeded =>
        LET n == LastPosition
            w == pg_type.ty
            scalar == deserialized_params[n]
        IN  /\ Len(deserialized_params) = n
            /\ w \in DecodableTypes
            /\ scalar.variant = VariantOf(w)
            /\ scalar.value.some = (parameters[n] # NullPayload)
            /\ scalar.tz = IF w = "TIMESTAMPTZ" /\ parameters[n] # NullPayload
                           THEN ParameterOffsetString(parameters[n])
                           ELSE NoTz

\* a TIMESTAMPTZ parameter sent with offset -05:00 was decoded
C11_Witness ==
    /\ TurnSucceeded
    /\ pg_type.ty = "TIMESTAMPTZ"
    /\ parameters[LastPosition] = AlternatePayload
    /\ deserialized_params[LastPosition].tz = "-05:00"
    /\ deserialized_params[LastPosition].value.some

\* the latest turn resolved a wire type the match has no arm for
ResolvedUndecodable ==
    /\ ret.tag \in {"Pending", "Ok", "Err"}
    /\ LastPosition >= 1
    /\ pg_type.tag = "Ok"
    /\ pg_type.ty \notin DecodableTypes

\* C12: a parameter whose resolved wire type is none of the thirteen
\* decodable ones makes deserialize_parameters fail with the user error of
\* severity ERROR and code XX000, not with the FATAL kind.
C12_UnsupportedParamIsError ==
    ResolvedUndecodable =>
        /\ ret.tag = "Err"
        /\ ret.err.kind = "UserError"
        /\ ret.err.severity = "ERROR"
        /\ ret.err.code = "XX000"

\* what position n resolves to, from the inputs at position n alone
ResolvedAt(n) ==
    IF HintPresent(n) THEN [tag |-> "Ok", ty |-> parameter_types[n]]
    ELSE IF InferredPresent(n) THEN into_pg_type(inferenced_types[n])
    ELSE [tag |-> "Err"]

\* the decoding of parameter n under the type position n resolves to
DecodingAt(n) == deserialize_parameter(parameters[n], ResolvedAt(n).ty)

\* resolving or decoding parameter n fails
FailsAt(n) == ResolvedAt(n).tag = "Err" \/ DecodingAt(n).tag = "Err"

\* C13: on success the returned list has one scalar per parameter, the
\* scalar at position n being the decoding of parameter n; on failure the
\* loop stopped at the first parameter that fails and the error comes with
\* no scalar list.
C13_PositionalResult ==
    /\ ret.tag = "Ok" =>
          /\ Len(ret.params) = Len(parameters)
          /\ \A n \in 1..Len(parameters) :
                ~FailsAt(n) /\ ret.params[n] = DecodingAt(n).scalar
    /\ ret.tag = "Err" =>
          /\ ret.params = <<>>
          /\ param_i \in 1..Len(parameters)
          /\ FailsAt(param_i)
          /\ \A n \in 1..(param_i - 1) : ~FailsAt(n)
          /\ Len(deserialized_params) = param_i - 1

\* a call with two parameters of different types returned two scalars
C13_Witness ==
    /\ ret.tag = "Ok"
    /\ Len(parameters) >= 2
    /\ Len(ret.params) = Len(parameters)
    /\ ret.params[1].variant # ret.params[2].variant
    /\ ret.params[1].value.some

(***************************************************************************)
(* Claims about lists of lists and about Time columns.                     *)
(***************************************************************************)
\* encode_value was called on the cell of arr and has returned or panicked
Encoded == arr # Idle /\ enc_result \notin {Idle, Pending}

IsUnsupported(res) ==
    /\ res.tag = "Err"
    /\ res.kind = "UserError"
    /\ res.severity = "ERROR"
    /\ res.code = "XX000"

\* C14: for a column whose type is a list of lists (any of the three list
\* kinds, outside and inside), into_pg_type returns the Unsupported user
\* error and encode_value returns an error of the same kind (UserError,
\* ERROR, XX000) with the row encoder as it was handed in.
C14_NestedListUnsupported ==
    (Encoded /\ IsList(arr.data_type) /\ IsList(arr.data_type.elem)) =>
        /\ IsUnsupported(into_pg_type(arr.data_type))
        /\ enc_result.tag = "Err"
        /\ IsUnsupported(enc_result.err)
        /\ enc_result.fields = encoder

\* encode_value returned from a non-empty LargeList(FixedSizeList(Int32))
\* cell, with a field already in the encoder
C14_Witness ==
    /\ Encoded
    /\ arr.data_type.k = "LargeList"
    /\ arr.data_type.elem.k = "FixedSizeList"
    /\ arr.cells[1].items # <<>>
    /\ encoder # <<>>
    /\ enc_result.tag = "Err"

\* C15: when the declared type of a position is missing or is
\* Type::UNKNOWN and the engine inferred a type for it, the parameter is
\* resolved through the inferred type; the resolution errs only when
\* neither source gives a type.
C15_UnknownHintFallsBack ==
    (ret.tag \in {"Pending", "Ok", "Err"} /\ LastPosition >= 1) =>
        LET n == LastPosition
            no_hint == ~HintPresent(n) \/ parameter_types[n] = "UNKNOWN"
        IN  /\ (no_hint /\ InferredPresent(n)) =>
                  pg_type = into_pg_type(inferenced_types[n])
            /\ (pg_type.tag = "Err" /\ pg_type.message = "Unknown parameter type") =>
                  (no_hint /\ ~InferredPresent(n))

\* the field encode_value writes for a scalar cell of type t holding v,
\* into an empty encoder
ScalarFieldOf(t, v) == encode_value(<<>>, Array(t, <<Cell(v)>>), 1)

\* C16: in the vector encode_value emits for a list cell of a supported
\* element type X, the entry of every non-null element v has the scalar
\* form and value of the field emitted for a scalar cell of type X holding
\* v (dates as calendar dates, times as datetimes, not raw integers).
C16_ListElementAsScalar ==
    LET t == arr.data_type
        c == arr.cells[1]
    IN  (/\ Encoded
         /\ enc_result.tag = "Ok"
         /\ IsList(t)
         /\ t.elem \in SupportedListElems
         /\ Len(enc_result.fields) = Len(encoder) + 1
         /\ LastField.form = "vec")
            => \A n \in 1..Len(c.items) :
                  ~c.items[n].null =>
                      LET scalar == ScalarFieldOf(t.elem, c.items[n].v)
                      IN  /\ scalar.tag = "Ok"
                          /\ Len(scalar.fields) = 1
                          /\ OptionField(LastField.elem, LastField.items[n])
                                = scalar.fields[1]

\* the (width, unit) pairs of Time that arrow does not define
IllFormedTime(t) ==
    \/ t.k = "Time32" /\ t.unit \in {"Microsecond", "Nanosecond"}
    \/ t.k = "Time64" /\ t.unit \in {"Second", "Millisecond"}

\* C17: for a column of type Time32(microsecond | nanosecond) or
\* Time64(second | millisecond), or a list column with such an element
\* type, encode_value returns ok and the row encoder is as it was handed
\* in: no field is written.
C17_IllFormedTimeIsNoOp ==
    LET t == arr.data_type
    IN  (Encoded /\ (IllFormedTime(t) \/ (IsList(t) /\ ~IsList(t.elem) /\ IllFormedTime(t.elem))))
            => /\ enc_result.tag = "Ok"
               /\ enc_result.fields = encoder

\* encode_value returned from a non-empty List(Time64(Second)) cell with a
\* field already in the encoder
C17_Witness ==
    /\ Encoded
    /\ arr.data_type = ListOf("List", Time64("Second"))
    /\ arr.cells[1].items # <<>>
    /\ encoder # <<>>
    /\ enc_result.tag = "Ok"
    /\ enc_result.fields = encoder

(***************************************************************************)
(* The schema translation against the row encoding.                        *)
(***************************************************************************)
\* C18: once df_schema_to_pg_fields has accepted the schema, every row the
\* adapter emits holds exactly one field per column, and no cell's encoding
\* fails: the stream does not break off inside a row.
C18_AcceptedSchemaEncodes ==
    pg_fields.tag = "Ok" =>
        /\ pc # "panicked"
        /\ \A p \in 1..Len(output) :
              output[p].tag = "Row" => Len(output[p].fields) = Len(schema)
====
